---------------------------- MODULE Spec2Model ----------------------------
(***************************************************************************)
(* A model of the metadata grouping, normalization and mapping scripts of  *)
(* dicompare-web:                                                          *)
(*   src/src/scripts/generate_template.py   make_hashable,                 *)
(*                                          fetch_unique_rows,             *)
(*                                          get_constant_fields            *)
(*   src/src/scripts/mapping_output.py      Series labels, session map     *)
(*   src/src/scripts/compliance_output.py   parsing the finalized mapping  *)
(*   src/scripts/process_example_dicoms.py  process_dicom_directory        *)
(*                                                                         *)
(* Python values are tagged records of one shape, so that values of        *)
(* different Python types can be compared and collected in sets.  Text     *)
(* that is only compared is a TLA+ string; text that is split or stripped  *)
(* is a sequence of one-character strings.                                 *)
(***************************************************************************)
EXTENDS Integers, Sequences, FiniteSets, TLC

VARIABLES
    pc,                       \* position of the running script or function
    \* make_hashable
    values,                   \* the raw values handed to make_hashable
    hashable,                 \* what make_hashable returned for them, in order
    \* get_constant_fields
    rows, fields, constant_fields, variable_fields, field_i,
    \* fetch_unique_rows
    df, acquisition, selected_fields, df_selected, result,
    raised,                   \* the exception that ended the call, or "none"
    \* mapping_output.py, compliance_output.py
    is_json, in_session, reference_fields, input_acquisitions,
    ref_session, session_map, session_map_serializable, output,
    series_map, acquisition_map,
    \* process_dicom_directory
    session, available_fields, acquisitions

normVars  == <<values, hashable>>
constVars == <<rows, fields, constant_fields, variable_fields, field_i>>
fetchVars == <<df, acquisition, selected_fields, df_selected, result>>
seriesVars == <<is_json, in_session, reference_fields, input_acquisitions>>
mapVars   == <<ref_session, session_map, session_map_serializable, output,
               series_map, acquisition_map>>
procVars  == <<session, available_fields, acquisitions>>
vars == <<pc, raised, normVars, constVars, fetchVars, seriesVars, mapVars, procVars>>

\* What the actions of one function or script leave alone.
notNorm   == <<constVars, fetchVars, seriesVars, mapVars, procVars>>
notConst  == <<normVars, fetchVars, seriesVars, mapVars, procVars>>
notFetch  == <<normVars, constVars, seriesVars, mapVars, procVars>>
notSeries == <<normVars, constVars, fetchVars, mapVars, procVars>>
notMap    == <<normVars, constVars, fetchVars, procVars>>
notProc   == <<normVars, constVars, fetchVars, seriesVars, mapVars>>

---------------------------------------------------------------------------
(* Bounds of the model.                                                    *)

\* Longest list, tuple, set or dict drawn as a raw value.
MaxLen == 2
\* Most rows handed to get_constant_fields, most rows of a table.
MaxRows == 2
\* Longest field list handed to get_constant_fields and fetch_unique_rows.
MaxFields == 2
\* Most rows of a loaded session.
MaxSessionRows == 4
\* Longest acquisition name of a mapped session.
MaxNameLen == 2
\* Most entries of a session map, most acquisitions of a session.
MaxEntries == 2

---------------------------------------------------------------------------
(* Python values.                                                          *)

PyValue(k, n, s, e) == [k |-> k, n |-> n, s |-> s, e |-> e]
PyNone     == PyValue("none", 0, "", <<>>)
\* float('nan'): every occurrence is an independently produced object.
PyNaN      == PyValue("nan", 0, "", <<>>)
PyInt(n)   == PyValue("int", n, "", <<>>)
PyStr(s)   == PyValue("str", 0, s, <<>>)
\* A str as its characters, for the names and labels that are joined and split.
PyText(e)  == PyValue("text", 0, "", e)
PyList(e)  == PyValue("list", 0, "", e)
PyTuple(e) == PyValue("tuple", 0, "", e)
\* A set with its elements in the order iteration yields them: CPython's order
\* depends on the insertion history (list({0, 8}) is [0, 8], list({8, 0}) is
\* [8, 0]), so equal sets exist in several orders.
PySet(e)   == PyValue("set", 0, "", e)
\* A dict as its items in insertion order; an item is a key with its value.
PyItem(key, v) == PyValue("item", 0, key, <<v>>)
PyDict(e)  == PyValue("dict", 0, "", e)

Range(f) == {f[x] : x \in DOMAIN f}

SeqsUpTo(S, n) == UNION {[1..m -> S] : m \in 0..n}

DistinctSeqsUpTo(S, n) == {q \in SeqsUpTo(S, n) : Cardinality(Range(q)) = Len(q)}

\* The strings of the model in Python's str order ('[' < 'a' < 'b' < '{').
StrOrder == <<"[0]", "[]", "a", "b", "{\"a\": 0}">>

StrRank(s) == CHOOSE i \in 1..Len(StrOrder) : StrOrder[i] = s

RECURSIVE JoinStr(_, _)
\* sep.join(parts)
JoinStr(parts, sep) ==
    IF Len(parts) = 0 THEN ""
    ELSE IF Len(parts) = 1 THEN parts[1]
    ELSE parts[1] \o sep \o JoinStr(Tail(parts), sep)

RECURSIVE SortedItems(_)
\* The items of a dict ordered by key, as sort_keys=True orders them.
SortedItems(items) ==
    IF items = {} THEN <<>>
    ELSE LET first == CHOOSE i \in items :
                          \A j \in items : StrRank(i.s) <= StrRank(j.s)
         IN  <<first>> \o SortedItems(items \ {first})

RECURSIVE JsonDumps(_, _)
\* json.dumps(value, sort_keys=sort_keys) with the default separators.  The
\* strings of the model hold no character that JSON escapes; a tuple is
\* written as a list, NaN as the bare word NaN.
JsonDumps(v, sort_keys) ==
    CASE v.k = "none"  -> "null"
      [] v.k = "nan"   -> "NaN"
      [] v.k = "int"   -> ToString(v.n)
      [] v.k = "str"   -> "\"" \o v.s \o "\""
      [] v.k \in {"list", "tuple"} ->
            "[" \o JoinStr([i \in 1..Len(v.e) |-> JsonDumps(v.e[i], sort_keys)], ", ") \o "]"
      [] v.k = "dict"  ->
            LET items == IF sort_keys THEN SortedItems(Range(v.e)) ELSE v.e
            IN  "{" \o JoinStr([i \in 1..Len(items) |->
                        "\"" \o items[i].s \o "\": "
                            \o JsonDumps(items[i].e[1], sort_keys)], ", ") \o "}"

RECURSIVE make_hashable_unsorted(_)
\* make_hashable with json.dumps called without sort_keys.
make_hashable_unsorted(value) ==
    IF value.k \in {"list", "dict"} THEN PyStr(JsonDumps(value, FALSE))
    ELSE IF value.k \in {"set", "tuple"}
         THEN PyTuple([i \in 1..Len(value.e) |-> make_hashable_unsorted(value.e[i])])
         ELSE value

RECURSIVE make_hashable(_)
make_hashable(value) ==
    IF value.k \in {"list", "dict"} THEN PyStr(JsonDumps(value, TRUE))
    ELSE IF value.k \in {"set", "tuple"}
         THEN PyTuple([i \in 1..Len(value.e) |-> make_hashable(value.e[i])])
         ELSE value

RECURSIVE PyEq(_, _)
\* Python's a == b for two independently produced values: NaN equals
\* nothing, itself included; sequences compare element by element; sets and
\* dicts compare by content.
PyEq(a, b) ==
    CASE a.k = "nan" \/ b.k = "nan" -> FALSE
      [] a.k # b.k -> FALSE
      [] a.k = "none" -> TRUE
      [] a.k = "int" -> a.n = b.n
      [] a.k = "str" -> a.s = b.s
      [] a.k = "text" -> a.e = b.e
      [] a.k \in {"list", "tuple"} ->
            /\ Len(a.e) = Len(b.e)
            /\ \A i \in 1..Len(a.e) : PyEq(a.e[i], b.e[i])
      [] a.k = "item" -> a.s = b.s /\ PyEq(a.e[1], b.e[1])
      [] a.k \in {"set", "dict"} ->
            /\ \A i \in 1..Len(a.e) : \E j \in 1..Len(b.e) : PyEq(a.e[i], b.e[j])
            /\ \A j \in 1..Len(b.e) : \E i \in 1..Len(a.e) : PyEq(a.e[i], b.e[j])

---------------------------------------------------------------------------
(* The raw values make_hashable is applied to.                             *)

Ints == {PyInt(0), PyInt(8)}
Scalars == Ints \cup {PyNone, PyNaN} \cup {PyStr(StrOrder[i]) : i \in 1..Len(StrOrder)}
Lists  == {PyList(e) : e \in SeqsUpTo(Ints \cup {PyStr("a")}, MaxLen)}
Tuples == {PyTuple(e) : e \in SeqsUpTo(Ints \cup {PyList(<<PyInt(0)>>), PyStr("[0]")}, MaxLen)}
Sets   == {PySet(e) : e \in DistinctSeqsUpTo(Ints, MaxLen)}
Dicts  == {PyDict(e) : e \in {q \in SeqsUpTo({PyItem(key, v) : key \in {"a", "b"}, v \in Ints}, MaxLen) :
                                 \A i, j \in 1..Len(q) : q[i].s = q[j].s => i = j}}
RawValues == Scalars \cup Lists \cup Tuples \cup Sets \cup Dicts

IdleConst ==
    /\ rows = <<>> /\ fields = <<>>
    /\ constant_fields = <<>> /\ variable_fields = <<>> /\ field_i = 0

IdleNorm == values = <<>> /\ hashable = <<>>

IdleSeries ==
    /\ is_json = TRUE /\ in_session = <<>> /\ reference_fields = <<>>
    /\ input_acquisitions = <<>>

IdleMap ==
    /\ ref_session = <<>> /\ session_map = <<>> /\ session_map_serializable = <<>>
    /\ output = <<>> /\ series_map = <<>> /\ acquisition_map = <<>>

IdleProc == session = <<>> /\ available_fields = <<>> /\ acquisitions = <<>>

IdleFetch ==
    /\ df = <<>> /\ acquisition = <<>> /\ selected_fields = <<>>
    /\ df_selected = <<>> /\ result = <<>>

InitNorm ==
    /\ pc = "make_hashable"
    /\ values \in RawValues \X RawValues
    /\ hashable = <<>>
    /\ raised = "none"
    /\ IdleConst /\ IdleFetch /\ IdleSeries /\ IdleMap /\ IdleProc

\* One call of make_hashable, on the next raw value.
Normalize ==
    /\ pc = "make_hashable"
    /\ Len(hashable) < Len(values)
    /\ hashable' = Append(hashable, make_hashable(values[Len(hashable) + 1]))
    /\ pc' = IF Len(hashable') = Len(values) THEN "done" ELSE pc
    /\ UNCHANGED <<values, raised, notNorm>>

---------------------------------------------------------------------------
(* get_constant_fields(rows, fields).  A row is a dict from field names to  *)
(* values; fields is a list of field names.                                *)

\* row.get(field, None)
Get(row, field) == IF field \in DOMAIN row THEN row[field] ELSE PyNone

\* list.remove(x): the list without the first occurrence of x.
RECURSIVE Remove(_, _)
Remove(list, x) ==
    IF list = <<>> THEN <<>>
    ELSE IF Head(list) = x THEN Tail(list)
    ELSE <<Head(list)>> \o Remove(Tail(list), x)

\* d[key] = v
SetItem(d, key, v) == (key :> v) @@ d

CellValues == {PyNaN, PyInt(0), PyList(<<PyInt(0)>>), PyStr("[0]")}
FieldNames == {"A", "B"}
RowValues == UNION {[D -> CellValues] : D \in SUBSET FieldNames}

InitConst ==
    /\ pc = "get_constant_fields"
    /\ rows \in SeqsUpTo(RowValues, MaxRows)
    /\ fields \in SeqsUpTo(FieldNames, MaxFields)
    /\ constant_fields = <<>>
    /\ variable_fields = <<>>
    /\ field_i = 0
    /\ raised = "none"
    /\ IdleNorm /\ IdleFetch /\ IdleSeries /\ IdleMap /\ IdleProc

\* Lines 49-53: the two results are created, and empty input returns at once.
GetConstantFieldsEnter ==
    /\ pc = "get_constant_fields"
    /\ constant_fields' = <<>>
    /\ variable_fields' = fields
    /\ field_i' = 1
    /\ pc' = IF rows = <<>> \/ fields = <<>> THEN "done" ELSE "for_field"
    /\ UNCHANGED <<rows, fields, raised, notConst>>

\* Line 57, comparing the rows from the second on only.
IsConstantSkipFirst(field) ==
    LET first_value == Get(rows[1], field)
    IN  \A r \in 2..Len(rows) :
            PyEq(make_hashable(Get(rows[r], field)), make_hashable(first_value))

\* Line 57: all(make_hashable(row.get(field)) == make_hashable(first_value)).
IsConstant(field) ==
    LET first_value == Get(rows[1], field)
    IN  \A r \in 1..Len(rows) :
            PyEq(make_hashable(Get(rows[r], field)), make_hashable(first_value))

\* Lines 59-61 without the removal from variable_fields.
KeepVariable(list, field) == list

\* Line 61: variable_fields.remove(field).
RemoveVariable(list, field) == Remove(list, field)

\* Lines 55-61: one iteration of the loop over fields.
GetConstantFieldsLoop ==
    /\ pc = "for_field"
    /\ field_i <= Len(fields)
    /\ LET field == fields[field_i]
           first_value == Get(rows[1], field)
       IN  IF IsConstant(field)
           THEN /\ constant_fields' = SetItem(constant_fields, field, first_value)
                /\ variable_fields' = RemoveVariable(variable_fields, field)
           ELSE UNCHANGED <<constant_fields, variable_fields>>
    /\ field_i' = field_i + 1
    /\ UNCHANGED <<pc, rows, fields, raised, notConst>>

\* Line 63: the loop is over.
GetConstantFieldsReturn ==
    /\ pc = "for_field"
    /\ field_i > Len(fields)
    /\ pc' = "done"
    /\ UNCHANGED <<constVars, raised, notConst>>

---------------------------------------------------------------------------
(* fetch_unique_rows(df, acquisition, selected_fields).  A DataFrame is its *)
(* column names with its rows, a row holding one cell per column.  Column  *)
(* names are sequences of characters.                                      *)

ProtocolName == <<"P", "r", "o", "t", "o", "c", "o", "l", "N", "a", "m", "e">>

DataFrame(columns, data) == [columns |-> columns, data |-> data]

\* The positions of the columns called name.
ColumnsNamed(frame, name) == {c \in 1..Len(frame.columns) : frame.columns[c] = name}

\* row[name] for a column name the frame has.
Cell(frame, row, name) == row[CHOOSE c \in ColumnsNamed(frame, name) : TRUE]

\* The subsequence of q at the positions where keep holds.
RECURSIVE Filter(_, _)
Filter(q, keep) ==
    IF q = <<>> THEN <<>>
    ELSE (IF keep[1] THEN <<Head(q)>> ELSE <<>>)
            \o Filter(Tail(q), [i \in 1..(Len(keep) - 1) |-> keep[i + 1]])

IsSpace(ch) == ch = " "

RECURSIVE LStrip(_)
LStrip(name) == IF name # <<>> /\ IsSpace(Head(name)) THEN LStrip(Tail(name)) ELSE name

RECURSIVE RStrip(_)
RStrip(name) ==
    IF name # <<>> /\ IsSpace(name[Len(name)])
    THEN RStrip(SubSeq(name, 1, Len(name) - 1))
    ELSE name

\* str.strip(): the name without leading and trailing whitespace.
Strip(name) == RStrip(LStrip(name))

\* Line 28 with an empty selection taken for a selection like any other.
NeverEmpty(fields_) == FALSE

\* Line 28: not selected_fields.
IsEmptySelection(fields_) == fields_ = <<>>

\* Line 31: any(field not in df.columns for field in selected_fields).
AnyFieldMissing(frame, fields_) ==
    \E i \in 1..Len(fields_) : ColumnsNamed(frame, fields_[i]) = {}

\* Line 34: df[df['ProtocolName'] == acquisition][selected_fields].copy()
SelectAcquisition(frame, acq, fields_) ==
    LET mine == Filter(frame.data,
                       [r \in 1..Len(frame.data) |->
                            PyEq(Cell(frame, frame.data[r], ProtocolName), acq)])
    IN  DataFrame(fields_,
                  [r \in 1..Len(mine) |->
                      [c \in 1..Len(fields_) |-> Cell(frame, mine[r], fields_[c])]])

\* Line 35: df_selected.columns = df_selected.columns.str.strip()
StripColumns(frame) ==
    DataFrame([c \in 1..Len(frame.columns) |-> Strip(frame.columns[c])], frame.data)

\* Lines 37-38: every cell of every column through make_hashable.
HashCells(frame) ==
    DataFrame(frame.columns,
              [r \in 1..Len(frame.data) |->
                  [c \in 1..Len(frame.columns) |-> make_hashable(frame.data[r][c])]])

\* pandas takes two cells for the same value when they are equal or both
\* missing.
SameCell(a, b) == (a.k = "nan" /\ b.k = "nan") \/ PyEq(a, b)

SameOn(frame, subset, r1, r2) ==
    \A i \in 1..Len(subset) : SameCell(Cell(frame, r1, subset[i]), Cell(frame, r2, subset[i]))

\* Line 40: drop_duplicates(subset=...) keeps the first row of each group of
\* rows equal on the subset.
DropDuplicates(frame, subset) ==
    DataFrame(frame.columns,
              Filter(frame.data,
                     [r \in 1..Len(frame.data) |->
                          \A q \in 1..(r - 1) :
                              ~SameOn(frame, subset, frame.data[q], frame.data[r])]))

\* The characters of the model in code point order.
CharOrder == <<"\n", " ", ",", "0", "1", "2", "3", "4", "5", "6", "7", "8", "9", ":",
               "N", "S", "a", "b", "d", "e", "i", "m", "n", "p", "r", "s", "t", "y">>

CharRank(ch) == CHOOSE i \in 1..Len(CharOrder) : CharOrder[i] = ch

RECURSIVE TextLess(_, _)
\* a < b for two strs: the first differing character decides, a proper
\* prefix comes first.
TextLess(a, b) ==
    IF b = <<>> THEN FALSE
    ELSE IF a = <<>> THEN TRUE
    ELSE IF Head(a) = Head(b) THEN TextLess(Tail(a), Tail(b))
    ELSE CharRank(Head(a)) < CharRank(Head(b))

\* Ascending order of two cells of one column, missing values last.
CellLess(a, b) ==
    CASE a.k = "nan" -> FALSE
      [] b.k = "nan" -> TRUE
      [] a.k = "int" -> a.n < b.n
      [] a.k = "str" -> StrRank(a.s) < StrRank(b.s)
      [] a.k = "text" -> TextLess(a.e, b.e)

\* r1 sorts before r2: lexicographic on the columns of by.
RowLess(frame, by, r1, r2) ==
    \E i \in 1..Len(by) :
        /\ CellLess(Cell(frame, r1, by[i]), Cell(frame, r2, by[i]))
        /\ \A j \in 1..(i - 1) : SameCell(Cell(frame, r1, by[j]), Cell(frame, r2, by[j]))

RECURSIVE InsertSorted(_, _, _, _)
InsertSorted(frame, by, sorted, row) ==
    IF sorted = <<>> THEN <<row>>
    ELSE IF RowLess(frame, by, row, Head(sorted))
         THEN <<row>> \o sorted
         ELSE <<Head(sorted)>> \o InsertSorted(frame, by, Tail(sorted), row)

RECURSIVE SortRows(_, _, _)
SortRows(frame, by, data) ==
    IF data = <<>> THEN <<>>
    ELSE InsertSorted(frame, by, SortRows(frame, by, SubSeq(data, 1, Len(data) - 1)),
                      data[Len(data)])

\* Line 43: sort_values(by=..., ascending=True), a stable sort.
SortValues(frame, by) == DataFrame(frame.columns, SortRows(frame, by, frame.data))

\* Line 45: to_dict(orient='records'), one dict per row.
ToRecords(frame) ==
    [r \in 1..Len(frame.data) |->
        [name \in Range(frame.columns) |-> Cell(frame, frame.data[r], name)]]

PaddedB == <<" ", "B">>
TableColumns == <<ProtocolName, <<"A">>, PaddedB>>
\* Column A holds numbers, column " B" lists and strings.
TableRows == {<<p, a, b>> : p \in {PyStr("a"), PyStr("b")},
                            a \in {PyInt(0), PyNaN},
                            b \in {PyList(<<PyInt(0)>>), PyStr("[0]")}}
SelectableFields == {<<"A">>, PaddedB, <<"C">>}

InitFetch ==
    /\ pc = "fetch_unique_rows"
    /\ df \in {DataFrame(TableColumns, data) : data \in SeqsUpTo(TableRows, MaxRows)}
    /\ acquisition \in {PyStr("a"), PyStr("b")}
    /\ selected_fields \in DistinctSeqsUpTo(SelectableFields, MaxFields)
    /\ df_selected = <<>>
    /\ result = <<>>
    /\ raised = "none"
    /\ IdleNorm /\ IdleConst /\ IdleSeries /\ IdleMap /\ IdleProc

\* Lines 28-32: the empty selection returns at once, a missing field raises.
FetchCheck ==
    /\ pc = "fetch_unique_rows"
    /\ IF IsEmptySelection(selected_fields)
       THEN pc' = "done" /\ result' = <<>> /\ raised' = raised
       ELSE IF AnyFieldMissing(df, selected_fields)
            THEN pc' = "raised" /\ raised' = "ValueError" /\ result' = result
            ELSE pc' = "select" /\ UNCHANGED <<raised, result>>
    /\ UNCHANGED <<df, acquisition, selected_fields, df_selected, notFetch>>

\* Lines 34-38: every selected field is a column here, by the check of line 31.
FetchSelect ==
    /\ pc = "select"
    /\ df_selected' =
           HashCells(StripColumns(SelectAcquisition(df, acquisition, selected_fields)))
    /\ pc' = "drop_duplicates"
    /\ UNCHANGED <<df, acquisition, selected_fields, result, raised, notFetch>>

\* Line 40: pandas raises KeyError for a subset column the frame lacks.
FetchDropDuplicates ==
    /\ pc = "drop_duplicates"
    /\ IF AnyFieldMissing(df_selected, selected_fields)
       THEN pc' = "raised" /\ raised' = "KeyError" /\ UNCHANGED df_selected
       ELSE /\ df_selected' = DropDuplicates(df_selected, selected_fields)
            /\ pc' = "sort_values"
            /\ UNCHANGED raised
    /\ UNCHANGED <<df, acquisition, selected_fields, result, notFetch>>

\* Lines 42-45.
FetchSortReturn ==
    /\ pc = "sort_values"
    /\ LET sorted == IF Range(selected_fields) \cap Range(df_selected.columns) # {}
                     THEN SortValues(df_selected, selected_fields)
                     ELSE df_selected
       IN  /\ df_selected' = sorted
           /\ result' = ToRecords(sorted)
    /\ pc' = "done"
    /\ UNCHANGED <<df, acquisition, selected_fields, raised, notFetch>>

---------------------------------------------------------------------------
(* mapping_output.py with a JSON reference, lines 13-36: the loaded session *)
(* gets its Series column and is sorted.  in_session is a DataFrame whose  *)
(* first column stands for the index pandas keeps with every row.          *)

RowIndex    == <<"i", "n", "d", "e", "x">>
Acquisition == <<"A", "c", "q", "u", "i", "s", "i", "t", "i", "o", "n">>
Series      == <<"S", "e", "r", "i", "e", "s">>
EchoTime    == <<"E", "c", "h", "o", "T", "i", "m", "e">>
FlipAngle   == <<"F", "l", "i", "p", "A", "n", "g", "l", "e">>
SliceTiming == <<"S", "l", "i", "c", "e", "T", "i", "m", "i", "n", "g">>

\* Line 11.
acquisition_fields == <<ProtocolName>>

RECURSIVE Digits(_)
\* str(n) for n >= 0.
Digits(n) == IF n < 10 THEN <<ToString(n)>> ELSE Digits(n \div 10) \o <<ToString(n % 10)>>

\* Line 31: f"Series {x}" for a number x.
SeriesLabel(x) == Series \o <<" ">> \o Digits(x)

\* Line 31 applied to a whole column of a one-row frame: f"Series {x}" with
\* x the column named name that holds the number n, which str() prints with
\* its index, name and dtype.
SeriesLabelOfColumn(name, n) ==
    Series \o <<" ">> \o <<"0", " ", " ", " ", " ">> \o Digits(n)
        \o <<"\n", "N", "a", "m", "e", ":", " ">> \o Digits(name)
        \o <<",", " ", "d", "t", "y", "p", "e", ":", " ", "i", "n", "t", "6", "4">>

\* The cells of a row in the columns of by.
KeyOf(frame, row, by) == [i \in 1..Len(by) |-> Cell(frame, row, by[i])]

\* The rows of the frame with the same cells as row in the columns of by.
GroupOf(frame, row, by) ==
    {r \in 1..Len(frame.data) : KeyOf(frame, frame.data[r], by) = KeyOf(frame, row, by)}

\* k1 sorts before k2: lexicographic, missing values last.
KeyLess(k1, k2) ==
    \E i \in 1..Len(k1) :
        /\ CellLess(k1[i], k2[i])
        /\ \A j \in 1..(i - 1) : SameCell(k1[j], k2[j])

\* The index pandas keeps with the row at position r.
IndexOf(frame, r) == Cell(frame, frame.data[r], RowIndex).n

\* ngroup() had groupby been told sort=False: the number of distinct keys of
\* the group that first appear above the row's.
NGroupUnsorted(frame, members, row, by) ==
    LET first(k) == CHOOSE i \in {IndexOf(frame, r) : r \in members} :
                        /\ \E r \in members :
                              IndexOf(frame, r) = i /\ KeyOf(frame, frame.data[r], by) = k
                        /\ \A q \in members :
                              KeyOf(frame, frame.data[q], by) = k => i <= IndexOf(frame, q)
        keys == {KeyOf(frame, frame.data[r], by) : r \in members}
    IN  Cardinality({k \in keys : first(k) < first(KeyOf(frame, row, by))})

\* Line 29: groupby(by, dropna=False).ngroup() for one row of a group of
\* rows.  groupby sorts the group keys (sort=True is its default), so the
\* number is that of the distinct keys of the group that sort before the
\* row's.
NGroup(frame, members, row, by) ==
    LET keys == {KeyOf(frame, frame.data[r], by) : r \in members}
    IN  Cardinality({k \in keys : KeyLess(k, KeyOf(frame, row, by))})

\* Lines 27-31 when groupby(...).apply joins the per-acquisition results into
\* one column: every row gets the label of its number.
WithSeries(frame, by) ==
    DataFrame(Append(frame.columns, Series),
              [r \in 1..Len(frame.data) |->
                  Append(frame.data[r],
                         PyText(SeriesLabel(
                             NGroup(frame, GroupOf(frame, frame.data[r], acquisition_fields),
                                    frame.data[r], by) + 1)))])

\* Lines 27-31 when the session holds one acquisition and apply stacks the
\* only result into a one-row frame with a column per row of the session:
\* .apply(lambda x: ...) then formats each whole column.
WithSeriesStacked(frame, by) ==
    DataFrame(Append(frame.columns, Series),
              [r \in 1..Len(frame.data) |->
                  Append(frame.data[r],
                         PyText(SeriesLabelOfColumn(
                             Cell(frame, frame.data[r], RowIndex).n,
                             NGroup(frame, GroupOf(frame, frame.data[r], acquisition_fields),
                                    frame.data[r], by) + 1)))])

\* list(frame[name].unique()): the distinct strs of a column in order of
\* first appearance.
Unique(frame, name) ==
    LET col == [r \in 1..Len(frame.data) |-> Cell(frame, frame.data[r], name)]
        firsts == Filter(col, [r \in 1..Len(col) |-> \A q \in 1..(r - 1) : col[q] # col[r]])
    IN  [i \in 1..Len(firsts) |-> firsts[i].e]

SessionColumns == <<RowIndex, Acquisition, ProtocolName, EchoTime, FlipAngle>>
\* The rows a loaded session may hold, before they are numbered: the loader
\* derives Acquisition from the acquisition fields.
SessionRows ==
    {<<PyNone, PyText(<<"a">>), PyText(<<"a">>), t, f>> :
        t \in {PyInt(0), PyInt(8), PyNaN}, f \in {PyInt(0), PyInt(8)}}
    \cup {<<PyNone, PyText(<<"b">>), PyText(<<"b">>), t, PyInt(0)>> :
        t \in {PyInt(0), PyInt(8)}}
\* load_dicom_session, then reset_index(drop=True): rows numbered from 0.
LoadedSessions ==
    {DataFrame(SessionColumns,
               [r \in 1..Len(data) |-> [data[r] EXCEPT ![1] = PyInt(r - 1)]]) :
        data \in SeqsUpTo(SessionRows, MaxSessionRows)}

InitSeries ==
    /\ pc = "mapping_output"
    /\ is_json = TRUE
    /\ in_session \in LoadedSessions
    /\ reference_fields \in {<<EchoTime>>, <<EchoTime, FlipAngle>>, <<EchoTime, SliceTiming>>}
    /\ input_acquisitions = <<>>
    /\ raised = "none"
    /\ IdleNorm /\ IdleConst /\ IdleFetch /\ IdleMap /\ IdleProc

\* Lines 13-22.
LoadSession ==
    /\ pc = "mapping_output"
    /\ IF in_session.data = <<>>
       THEN pc' = "raised" /\ raised' = "ValueError" /\ UNCHANGED input_acquisitions
       ELSE /\ input_acquisitions' = Unique(in_session, Acquisition)
            /\ pc' = "assign_series"
            /\ UNCHANGED raised
    /\ UNCHANGED <<is_json, in_session, reference_fields, notSeries>>

\* Lines 25-31.  groupby raises KeyError for a field that is no column.  With
\* a single acquisition, apply hands back either the joined column or the
\* stacked frame, depending on the pandas at hand.
AssignSeries ==
    /\ pc = "assign_series"
    /\ IF AnyFieldMissing(in_session, reference_fields)
       THEN pc' = "raised" /\ raised' = "KeyError" /\ UNCHANGED in_session
       ELSE /\ \/ in_session' = WithSeries(in_session, reference_fields)
               \/ /\ Len(input_acquisitions) = 1
                  /\ in_session' = WithSeriesStacked(in_session, reference_fields)
            /\ pc' = "sort_values"
            /\ UNCHANGED raised
    /\ UNCHANGED <<is_json, reference_fields, input_acquisitions, notSeries>>

\* Lines 32-36.
SortSession ==
    /\ pc = "sort_values"
    /\ in_session' = SortValues(in_session,
                                <<Acquisition, Series>> \o acquisition_fields \o reference_fields)
    /\ IF AnyFieldMissing(in_session', reference_fields)
       THEN pc' = "raised" /\ raised' = "ValueError"
       ELSE pc' = "map_to_json_reference" /\ UNCHANGED raised
    /\ UNCHANGED <<is_json, reference_fields, input_acquisitions, notSeries>>

---------------------------------------------------------------------------
(* mapping_output.py lines 38-56 and compliance_output.py: the session map *)
(* is serialized, handed out, and parsed back.  A dict is the sequence of  *)
(* its items <<key, value>> in insertion order; names, labels and          *)
(* serialized keys are sequences of characters.                            *)

Separator == <<":", ":">>

\* d[key] = v: a new key is added at the end, a known key keeps its place.
DictSet(d, key, v) ==
    IF \E i \in 1..Len(d) : d[i][1] = key
    THEN [i \in 1..Len(d) |-> IF d[i][1] = key THEN <<key, v>> ELSE d[i]]
    ELSE Append(d, <<key, v>>)

RECURSIVE DictOf(_)
\* {k: v for k, v in items}: later items overwrite earlier ones.
DictOf(items) ==
    IF items = <<>> THEN <<>>
    ELSE LET last == items[Len(items)]
         IN  DictSet(DictOf(SubSeq(items, 1, Len(items) - 1)), last[1], last[2])

Keys(d) == [i \in 1..Len(d) |-> d[i][1]]

\* mapping_output.py line 40 with a single colon between the parts.
JoinSingleColon(key) == key[1] \o <<":">> \o key[2]

\* mapping_output.py line 40: f"{key[0]}::{key[1]}".
JoinKey(key) == key[1] \o Separator \o key[2]

\* The leftmost position at which sep occurs in text, 0 if it does not.
Find(text, sep) ==
    LET hits == {i \in 1..(Len(text) - Len(sep) + 1) :
                    SubSeq(text, i, i + Len(sep) - 1) = sep}
    IN  IF hits = {} THEN 0 ELSE CHOOSE i \in hits : \A j \in hits : i <= j

RECURSIVE Split(_, _)
\* text.split(sep): cut at every occurrence of sep, found from the left.
Split(text, sep) ==
    LET at == Find(text, sep)
    IN  IF at = 0 THEN <<text>>
        ELSE <<SubSeq(text, 1, at - 1)>>
                \o Split(SubSeq(text, at + Len(sep), Len(text)), sep)

\* zip(a, b) with the pairs taken from the two ends.
ZipCrossed(a, b) ==
    LET n == IF Len(a) < Len(b) THEN Len(a) ELSE Len(b)
    IN  [i \in 1..n |-> <<a[i], b[n + 1 - i]>>]

\* mapping_output.py line 49: zip(a, b) stops with the shorter list.
Zip(a, b) ==
    LET n == IF Len(a) < Len(b) THEN Len(a) ELSE Len(b)
    IN  [i \in 1..n |-> <<a[i], b[i]>>]

Names == SeqsUpTo({"a", ":"}, MaxNameLen)
\* The names of reference acquisitions: plain, ending in a colon, holding
\* the separator.
RefNames == {<<"r">>, <<"r", ":">>, <<"r", ":", ":", "r">>}
InputKeys == {<<name, SeriesLabel(1)>> : name \in Names}
RefKeys == {<<name, SeriesLabel(1)>> : name \in RefNames}

\* The maps map_to_json_reference may hand back: input (acquisition, series)
\* keys, each with the reference (acquisition, series) it matched.
SessionMaps ==
    {m \in SeqsUpTo(InputKeys \X RefKeys, MaxEntries) :
        \A i, j \in 1..Len(m) : m[i][1] = m[j][1] => i = j}

\* The distinct members of a sequence in order of first appearance.
Distinct(q) == Filter(q, [i \in 1..Len(q) |-> \A j \in 1..(i - 1) : q[j] # q[i]])

InitMap ==
    /\ pc = "session_map"
    /\ \/ /\ is_json = TRUE
          /\ session_map \in SessionMaps
          /\ input_acquisitions = Distinct([i \in 1..Len(session_map) |-> session_map[i][1][1]])
          /\ ref_session = [acquisitions |->
                               Distinct([i \in 1..Len(session_map) |-> session_map[i][2][1]])]
       \/ /\ is_json = FALSE
          /\ session_map = <<>>
          /\ input_acquisitions \in DistinctSeqsUpTo(Names, MaxEntries) \ {<<>>}
          /\ ref_session \in {[acquisitions |-> a] : a \in DistinctSeqsUpTo(RefNames, MaxEntries)}
    /\ in_session = <<>> /\ reference_fields = <<>>
    /\ session_map_serializable = <<>> /\ output = <<>>
    /\ series_map = <<>> /\ acquisition_map = <<>>
    /\ raised = "none"
    /\ IdleNorm /\ IdleConst /\ IdleFetch /\ IdleProc

\* mapping_output.py lines 39-42 (JSON reference) or 47-50 (Python module).
SerializeSessionMap ==
    /\ pc = "session_map"
    /\ session_map_serializable' =
           IF is_json
           THEN DictOf([i \in 1..Len(session_map) |->
                           <<JoinKey(session_map[i][1]), JoinKey(session_map[i][2])>>])
           ELSE DictOf(Zip(input_acquisitions, ref_session.acquisitions))
    /\ pc' = "output"
    /\ UNCHANGED <<seriesVars, ref_session, session_map, output, series_map,
                   acquisition_map, raised, notMap>>

\* mapping_output.py lines 52-56.
ProduceOutput ==
    /\ pc = "output"
    /\ output' = [reference_acquisitions |-> ref_session.acquisitions,
                  input_acquisitions |-> input_acquisitions,
                  session_map |-> session_map_serializable]
    /\ pc' = "compliance_output"
    /\ UNCHANGED <<seriesVars, ref_session, session_map, session_map_serializable,
                   series_map, acquisition_map, raised, notMap>>

\* compliance_output.py lines 4-8 or 13-16, on the session map handed out as
\* the finalized mapping (json.dumps and json.loads keep a dict of strs).
ParseFinalizedMapping ==
    /\ pc = "compliance_output"
    /\ LET finalized_mapping == output.session_map
       IN  IF is_json
           THEN /\ series_map' =
                       DictOf([i \in 1..Len(finalized_mapping) |->
                                  <<Split(finalized_mapping[i][1], Separator),
                                    Split(finalized_mapping[i][2], Separator)>>])
                /\ UNCHANGED acquisition_map
           ELSE /\ acquisition_map' =
                       DictOf([i \in 1..Len(finalized_mapping) |->
                                  <<Split(finalized_mapping[i][1], Separator)[1],
                                    finalized_mapping[i][2]>>])
                /\ UNCHANGED series_map
    /\ pc' = "done"
    /\ UNCHANGED <<seriesVars, ref_session, session_map, session_map_serializable,
                   output, raised, notMap>>

---------------------------------------------------------------------------
(* process_dicom_directory(dicom_path, reference_fields).  The session is  *)
(* its columns with what has been done to it so far.                       *)

SeriesDescription == <<"S", "e", "r", "i", "e", "s", "D", "e", "s", "c", "r", "i", "p", "t", "i", "o", "n">>
Manufacturer == <<"M", "a", "n", "u", "f", "a", "c", "t", "u", "r", "e", "r">>

\* Line 143.
basic_fields == <<ProtocolName, SeriesDescription, Manufacturer>>

\* Lines 140 and 144: [f for f in candidates if f in session.columns].
Existing(candidates, columns) ==
    Filter(candidates, [i \in 1..Len(candidates) |-> candidates[i] \in Range(columns)])

\* Lines 140-144 with the fallback list taken as it is.
AvailableFieldsUnfiltered(candidates, columns) ==
    IF Existing(candidates, columns) # <<>> THEN Existing(candidates, columns)
    ELSE basic_fields

\* Lines 140-144: the caller's fields that exist, else the basic fields that
\* exist.
AvailableFields(candidates, columns) ==
    IF Existing(candidates, columns) # <<>> THEN Existing(candidates, columns)
    ELSE Existing(basic_fields, columns)

\* The column sets a loaded session may have, in a fixed column order.
SessionColumnLists ==
    LET all == <<ProtocolName, SeriesDescription, Manufacturer, EchoTime>>
    IN  {Filter(all, keep) : keep \in [1..Len(all) -> BOOLEAN]}

InitProc ==
    /\ pc = "process_dicom_directory"
    /\ session \in {[columns |-> c, assigned |-> FALSE, sorted_by |-> <<>>] :
                       c \in SessionColumnLists}
    /\ reference_fields \in SeqsUpTo({SeriesDescription, EchoTime, FlipAngle}, MaxFields)
    /\ available_fields = <<>>
    /\ acquisitions = <<>>
    /\ raised = "none"
    /\ is_json = TRUE /\ in_session = <<>> /\ input_acquisitions = <<>>
    /\ IdleNorm /\ IdleConst /\ IdleFetch /\ IdleMap

\* Lines 139-146.
FilterFields ==
    /\ pc = "process_dicom_directory"
    /\ available_fields' = AvailableFields(reference_fields, session.columns)
    /\ IF available_fields' = <<>>
       THEN pc' = "raised" /\ raised' = "ValueError"
       ELSE pc' = "assign_acquisition_and_run_numbers" /\ UNCHANGED raised
    /\ UNCHANGED <<session, acquisitions, notProc>>

\* Lines 150-152.
AssignAcquisitions ==
    /\ pc = "assign_acquisition_and_run_numbers"
    /\ session' = [session EXCEPT !.assigned = TRUE]
    /\ pc' = "sort_values"
    /\ UNCHANGED <<available_fields, acquisitions, raised, notProc>>

\* Line 155.
SortAcquisitions ==
    /\ pc = "sort_values"
    /\ session' = [session EXCEPT !.sorted_by = <<Acquisition>> \o available_fields]
    /\ pc' = "create_json_reference"
    /\ UNCHANGED <<available_fields, acquisitions, raised, notProc>>

\* Lines 159-166.
CreateReference ==
    /\ pc = "create_json_reference"
    /\ acquisitions' = [fields |-> available_fields]
    /\ pc' = "done"
    /\ UNCHANGED <<session, available_fields, raised, notProc>>

---------------------------------------------------------------------------
(* Properties of the Series labels.                                        *)

\* The rows of the acquisition of the row at position r.
SameAcquisition(r) == GroupOf(in_session, in_session.data[r], acquisition_fields)

RefKey(r) == KeyOf(in_session, in_session.data[r], reference_fields)

SeriesOf(r) == Cell(in_session, in_session.data[r], Series)

LabelNumber(label) ==
    IF \E n \in 1..MaxSessionRows : label = PyText(SeriesLabel(n))
    THEN CHOOSE n \in 1..MaxSessionRows : label = PyText(SeriesLabel(n))
    ELSE 0

---------------------------------------------------------------------------
(* Properties of the session map.                                          *)

\* C3 as stated: parsing the serialized session map back gives exactly the
\* original pairs of two-part keys, whatever the names and labels.
C3_RoundTripForAnyNames ==
    pc = "done" /\ is_json => Range(series_map) = Range(session_map)

\* Splitting the joined pair finds the separator once, where it was put:
\* neither part holds the separator and the first does not end in a colon.
SplitsBack(pair) ==
    /\ Find(pair[1], Separator) = 0
    /\ Find(pair[2], Separator) = 0
    /\ pair[1] = <<>> \/ pair[1][Len(pair[1])] # ":"

\* C3 as amended: a session map in which neither part of any key or value
\* holds "::" and no first part ends in a colon is reconstructed exactly by
\* the round trip; and a two-part key or value is itself reconstructed by
\* joining and splitting exactly when it is of that kind.
C3_RoundTripForSplittableNames ==
    pc = "done" /\ is_json =>
        /\ (\A i \in 1..Len(session_map) :
                SplitsBack(session_map[i][1]) /\ SplitsBack(session_map[i][2]))
              => Range(series_map) = Range(session_map)
        /\ \A i \in 1..Len(session_map) : \A part \in 1..2 :
              LET at == CHOOSE j \in 1..Len(session_map_serializable) :
                            session_map_serializable[j][1] = JoinKey(session_map[i][1])
              IN  Split(session_map_serializable[at][part], Separator) = session_map[i][part]
                      <=> SplitsBack(session_map[i][part])

\* A map of two entries that comes back whole, one of its acquisition names
\* holding a colon.
C3_Witness ==
    /\ pc = "done" /\ is_json
    /\ Len(session_map) = 2
    /\ \E i \in 1..2 : session_map[i][1][1] = <<":", "a">>
    /\ \E i \in 1..2 : session_map[i][2][1] = <<"r">>
    /\ Range(series_map) = Range(session_map)

\* The acquisitions the output lists and its session map leaves out.
UnmappedInOutput ==
    {x \in Range(output.input_acquisitions) :
        \A i \in 1..Len(output.session_map) : output.session_map[i][1] # x}
    \cup {y \in Range(output.reference_acquisitions) :
        \A i \in 1..Len(output.session_map) : output.session_map[i][2] # y}

---------------------------------------------------------------------------
(* Properties of process_dicom_directory.                                  *)

\* The members of candidates, in their order, that are columns of the table.
InTable(candidates) ==
    Filter(candidates,
           [i \in 1..Len(candidates) |->
               \E c \in 1..Len(session.columns) : session.columns[c] = candidates[i]])

\* C9: the caller's existing fields are used, in caller order, if there is
\* one; else the existing members of (ProtocolName, SeriesDescription,
\* Manufacturer); else the call fails before any grouping, sorting or
\* reference creation.  Whenever processing proceeds the field list used is
\* non-empty and each of its fields is a column.
C9_FieldListFallback ==
    pc # "process_dicom_directory" =>
        /\ IF InTable(reference_fields) # <<>>
           THEN pc # "raised" /\ available_fields = InTable(reference_fields)
           ELSE IF InTable(<<ProtocolName, SeriesDescription, Manufacturer>>) # <<>>
           THEN /\ pc # "raised"
                /\ available_fields = InTable(<<ProtocolName, SeriesDescription, Manufacturer>>)
           ELSE /\ pc = "raised" /\ raised = "ValueError"
                /\ ~session.assigned /\ session.sorted_by = <<>> /\ acquisitions = <<>>
        /\ pc # "raised" =>
              /\ available_fields # <<>>
              /\ Range(available_fields) \subseteq Range(session.columns)
              /\ session.sorted_by # <<>> => session.sorted_by = <<Acquisition>> \o available_fields
              /\ acquisitions # <<>> => acquisitions.fields = available_fields

\* None of the caller's fields is a column, and the reference is created
\* from the basic fields the table has.
C9_Witness ==
    /\ pc = "done"
    /\ reference_fields = <<FlipAngle, EchoTime>>
    /\ session.columns = <<ProtocolName, Manufacturer>>
    /\ acquisitions = [fields |-> <<ProtocolName, Manufacturer>>]

---------------------------------------------------------------------------
(* Properties of make_hashable.                                            *)

RECURSIVE SemEq(_, _)
\* Two raw values are semantically identical: the same kind of value with
\* the same content.  The order in which a set or a dict was filled does not
\* count, and a missing number is a missing number.
SemEq(a, b) ==
    CASE a.k # b.k -> FALSE
      [] a.k \in {"none", "nan"} -> TRUE
      [] a.k = "int" -> a.n = b.n
      [] a.k = "str" -> a.s = b.s
      [] a.k \in {"list", "tuple"} ->
            /\ Len(a.e) = Len(b.e)
            /\ \A i \in 1..Len(a.e) : SemEq(a.e[i], b.e[i])
      [] a.k = "item" -> a.s = b.s /\ SemEq(a.e[1], b.e[1])
      [] a.k \in {"set", "dict"} ->
            /\ \A i \in 1..Len(a.e) : \E j \in 1..Len(b.e) : SemEq(a.e[i], b.e[j])
            /\ \A j \in 1..Len(b.e) : \E i \in 1..Len(a.e) : SemEq(a.e[i], b.e[j])

RECURSIVE HasKind(_, _)
\* v is, or holds at some depth, a value of one of the kinds.
HasKind(v, kinds) ==
    \/ v.k \in kinds
    \/ \E i \in 1..Len(v.e) : HasKind(v.e[i], kinds)

\* A scalar, or a list or dict of scalars.
IsFlat(v) ==
    /\ v.k \notin {"set", "tuple", "nan"}
    /\ \A i \in 1..Len(v.e) :
          ~HasKind(IF v.k = "dict" THEN v.e[i].e[1] ELSE v.e[i],
                   {"list", "dict", "set", "tuple", "nan"})

---------------------------------------------------------------------------
(* Properties of get_constant_fields.                                      *)

\* C2: the keys of the constant-field map and the variable-field list are
\* disjoint and together make up the field set, for any rows and fields.
C2_ConstantVariablePartition ==
    pc = "done" =>
        /\ DOMAIN constant_fields \cap Range(variable_fields) = {}
        /\ DOMAIN constant_fields \cup Range(variable_fields) = Range(fields)

\* A constant and a variable field, with a row that lacks a field.
C2_Witness ==
    /\ pc = "done" /\ rows # <<>>
    /\ DOMAIN constant_fields # {}
    /\ variable_fields # <<>>
    /\ \E r \in 1..Len(rows) : \E f \in Range(fields) : f \notin DOMAIN rows[r]

\* C6 as stated: a field whose value is missing (NaN) in every row of the
\* group is classified as constant.
C6_MissingEverywhereIsConstant ==
    pc = "done" /\ rows # <<>> =>
        \A f \in Range(fields) :
            (\A r \in 1..Len(rows) : Get(rows[r], f) = PyNaN)
                => f \in DOMAIN constant_fields

C10_Result ==
    IF rows = <<>> \/ fields = <<>>
    THEN constant_fields = <<>> /\ variable_fields = fields
    ELSE \A f \in Range(fields) :
            /\ f \in DOMAIN constant_fields <=>
                  \A r \in 1..Len(rows) :
                      PyEq(make_hashable(Get(rows[r], f)),
                           make_hashable(Get(rows[1], f)))
            /\ f \in DOMAIN constant_fields =>
                  constant_fields[f] = Get(rows[1], f)

\* C10: for non-empty rows and fields a field is in the constant map exactly
\* when every row's normalized value equals (Python's ==) the first row's,
\* with the first row's raw value as its entry; empty rows or fields give an
\* empty map and the field list as it was; the caller's rows and field list
\* are never modified.
C10_ConstantFieldClassification ==
    /\ [](pc = "done" => C10_Result)
    /\ [][rows' = rows /\ fields' = fields]_vars

\* A constant field whose rows differ as raw values (a list and the string
\* of its JSON encoding) and whose entry is the first row's raw list.
C10_Witness ==
    /\ pc = "done" /\ Len(rows) = 2
    /\ \E f \in DOMAIN constant_fields :
          /\ Get(rows[1], f) = PyList(<<PyInt(0)>>)
          /\ Get(rows[2], f) = PyStr("[0]")
          /\ constant_fields[f] = PyList(<<PyInt(0)>>)

---------------------------------------------------------------------------
(* Properties of fetch_unique_rows.                                        *)

\* The normalized value tuples over the selected fields among the rows of
\* the acquisition.
AcquisitionTuples ==
    {[i \in 1..Len(selected_fields) |->
          make_hashable(Cell(df, df.data[r], selected_fields[i]))] :
        r \in {q \in 1..Len(df.data) :
                  Cell(df, df.data[q], ProtocolName) = acquisition}}

\* The result holds exactly one row for each of these tuples.
OneRowPerTuple ==
    /\ pc = "done" /\ raised = "none"
    /\ Len(result) = Cardinality(AcquisitionTuples)
    /\ \A r \in 1..Len(result) : Range(selected_fields) \subseteq DOMAIN result[r]
    /\ {[i \in 1..Len(selected_fields) |-> result[r][selected_fields[i]]] :
           r \in 1..Len(result)} = AcquisitionTuples

\* C7 as stated: for any table, acquisition and non-empty selection of
\* fields that all exist in the table, the result holds exactly one row for
\* each distinct normalized value tuple among the acquisition's rows.
C7_OneRowPerDistinctTuple ==
    ( /\ pc \in {"done", "raised"}
      /\ selected_fields # <<>>
      /\ ~AnyFieldMissing(df, selected_fields) ) => OneRowPerTuple

\* The same for selections whose names carry no surrounding whitespace,
\* which is where the function returns.
C7_HoldsForStrippedNames ==
    ( /\ pc \in {"done", "raised"}
      /\ selected_fields # <<>>
      /\ ~AnyFieldMissing(df, selected_fields)
      /\ \A i \in 1..Len(selected_fields) : Strip(selected_fields[i]) = selected_fields[i] )
        => OneRowPerTuple

\* C8: a selection with no overlap with the table's columns ends in an
\* explicit error, never in a result; an empty selection returns an empty
\* result and raises nothing.
C8_DeduplicatorInputErrors ==
    pc \in {"done", "raised"} =>
        /\ selected_fields = <<>> =>
              pc = "done" /\ raised = "none" /\ result = <<>>
        /\ ( /\ selected_fields # <<>>
             /\ \A i \in 1..Len(selected_fields) :
                   ColumnsNamed(df, selected_fields[i]) = {} )
              => pc = "raised" /\ raised # "none" /\ result = <<>>

\* A selection of a field the table lacks, rejected, for an acquisition that
\* has rows.
C8_Witness ==
    /\ pc = "raised" /\ raised = "ValueError"
    /\ selected_fields = << <<"C">> >>
    /\ \E r \in 1..Len(df.data) : Cell(df, df.data[r], ProtocolName) = acquisition

---------------------------------------------------------------------------
(* Specifications, one per script or function.                             *)

SpecNorm == InitNorm /\ [][Normalize]_vars

NextConst == GetConstantFieldsEnter \/ GetConstantFieldsLoop \/ GetConstantFieldsReturn

SpecConst == InitConst /\ [][NextConst]_vars

NextFetch == FetchCheck \/ FetchSelect \/ FetchDropDuplicates \/ FetchSortReturn

SpecFetch == InitFetch /\ [][NextFetch]_vars

NextSeries == LoadSession \/ AssignSeries \/ SortSession

SpecSeries == InitSeries /\ [][NextSeries]_vars

NextMap == SerializeSessionMap \/ ProduceOutput \/ ParseFinalizedMapping

SpecMap == InitMap /\ [][NextMap]_vars

NextProc == FilterFields \/ AssignAcquisitions \/ SortAcquisitions \/ CreateReference

SpecProc == InitProc /\ [][NextProc]_vars

=============================================================================
